---- MODULE Spec2Model ----
(***************************************************************************)
(* A model of lambda/lambda_function.py: one invocation of lambda_handler, *)
(* which stops EC2 instances running for more than 24 hours, deactivates   *)
(* IAM access keys inactive for more than 60 days, rotates Active keys     *)
(* older than 30 days and posts a summary to Slack.                        *)
(*                                                                         *)
(* Time is counted in hours.  The AWS services and the webhook are the     *)
(* environment: every response is drawn from a bounded set when the call   *)
(* is made, and every call may raise.  A paginated listing is modelled by  *)
(* the concatenation of its pages.  The metadata of the k-th access key of *)
(* a user is drawn when the loop reaches it: the list_access_keys response *)
(* is read once (line 150) and walked once, so drawing an element when it  *)
(* is visited is the same as drawing the whole list at the call.           *)
(***************************************************************************)
EXTENDS Integers, Sequences, FiniteSets, TLC

\* ------------------------------------------------------------ bounds
MaxInstances == 2
MaxUsers == 2
MaxKeys == 2

\* ------------------------------------------------------------ time
hours(n) == n
days(n) == 24 * n

running_threshold == hours(24)
inactive_threshold == days(60)
rotate_threshold == days(30)

None == "None"
\* get_access_key_last_used gives no LastUsedDate for a key never used (line 171).
NoDate == -1

\* ------------------------------------------------------------ inputs
Nows == {days(100)}
LaunchAges == {hours(23), hours(24), hours(25)}
CreateAges == {days(30), days(60), days(61)}
LastUsedAges == {days(5), days(61)}

InstanceStates == {"running", "stopped"}
KeyStatuses == {"Active", "Inactive"}

\* The instances of the account: ids 1..n, any state, launch time and tag.
Instance(id, t) ==
    { [InstanceId |-> id, State |-> s, LaunchTime |-> t - a, Tagged |-> g] :
        s \in InstanceStates, a \in LaunchAges, g \in BOOLEAN }

RECURSIVE Inventories(_, _)
Inventories(n, t) ==
    IF n = 0 THEN {<<>>}
    ELSE { Append(inv, ins) : inv \in Inventories(n - 1, t), ins \in Instance(n, t) }

Ec2Inventories(t) == UNION { Inventories(n, t) : n \in 0..MaxInstances }

\* The metadata list_access_keys gives for one key.
KeyMetas(id, t) ==
    { [AccessKeyId |-> id, Status |-> s, CreateDate |-> t - a] :
        s \in KeyStatuses, a \in CreateAges }

\* What get_access_key_last_used gives for it: no date, or one not before
\* the key's creation.
LastUsedDates(key_meta, t) ==
    {NoDate} \cup { t - a : a \in { b \in LastUsedAges : t - b >= key_meta.CreateDate } }

\* The outcomes of the calls one loop iteration can make.  put_secret_value
\* is called only after create_secret found the secret, and create_secret only
\* after create_access_key gave a key: the outcome of a call never made is
\* not varied.
Oracles ==
    { o \in [ create : {"ok", "error"},
              create_secret : {"ok", "exists", "error"},
              put_secret_value : {"ok", "error"},
              update : {"ok", "error"} ] :
        /\ o.create = "error" => o.create_secret = "ok"
        /\ o.create_secret # "exists" => o.put_secret_value = "ok" }

AllOk == [create |-> "ok", create_secret |-> "ok", put_secret_value |-> "ok", update |-> "ok"]

Call(api, arg, outcome) == [api |-> api, arg |-> arg, outcome |-> outcome]

Issued(calls, api) == { i \in 1..Len(calls) : calls[i].api = api }
Succeeded(calls, api) == { i \in Issued(calls, api) : calls[i].outcome = "ok" }

\* ------------------------------------------------------------ EC2
ec2_filters(tag) ==
    [state |-> "running", tag |-> tag]

describe_instances(filters, inventory) ==
    SelectSeq(inventory,
              LAMBDA ins : /\ ins.State = filters.state
                           /\ filters.tag => ins.Tagged)

\* The threshold itself taken as old.
is_old_at_threshold(instance, t) ==
    t - instance.LaunchTime >= running_threshold

is_old(instance, t) ==
    t - instance.LaunchTime > running_threshold

RECURSIVE scan_instances(_, _)
scan_instances(page, t) ==
    IF page = <<>> THEN <<>>
    ELSE LET rest == scan_instances(Tail(page), t)
         IN  IF is_old(Head(page), t)
             THEN <<Head(page).InstanceId>> \o rest
             ELSE rest

\* The dry run reporting its candidates as stopped.
stop_candidates_dry_counts(dry, to_stop, outcome) ==
    IF to_stop = <<>> THEN [calls |-> <<>>, instances_stopped |-> 0]
    ELSE IF dry THEN [calls |-> <<>>, instances_stopped |-> Len(to_stop)]
    ELSE [calls |-> <<Call("stop_instances", to_stop, outcome)>>,
          instances_stopped |-> IF outcome = "ok" THEN Len(to_stop) ELSE 0]

\* Lines 84-103: what the function does with its candidates.
stop_candidates(dry, to_stop, outcome) ==
    IF to_stop = <<>> THEN [calls |-> <<>>, instances_stopped |-> 0]
    ELSE IF dry THEN [calls |-> <<>>, instances_stopped |-> 0]
    ELSE [calls |-> <<Call("stop_instances", to_stop, outcome)>>,
          instances_stopped |-> IF outcome = "ok" THEN Len(to_stop) ELSE 0]

ec2_result(to_stop, stopped) ==
    [instances_to_stop |-> Len(to_stop), instances_stopped |-> stopped]

stop_old_ec2_instances(dry, tag, inventory, t, outcome) ==
    LET to_stop == scan_instances(describe_instances(ec2_filters(tag), inventory), t)
    IN  ec2_result(to_stop, stop_candidates(dry, to_stop, outcome).instances_stopped)

\* ------------------------------------------------------------ IAM
\* A failed update_access_key tried a second time.
deactivate_key_retry(username, access_key_id, o) ==
    IF o.update = "ok"
    THEN <<Call("update_access_key", access_key_id, "ok")>>
    ELSE <<Call("update_access_key", access_key_id, "error"),
           Call("update_access_key", access_key_id, "error")>>

\* Lines 211-221: one update_access_key call, its exception swallowed.
deactivate_key(username, access_key_id, o) ==
    <<Call("update_access_key", access_key_id, o.update)>>

\* Lines 242-287: create_secret, then put_secret_value when the secret exists.
store_access_key_in_secrets_manager(username, o) ==
    IF o.create_secret = "exists"
    THEN <<Call("create_secret", username, "exists"),
           Call("put_secret_value", username, o.put_secret_value)>>
    ELSE <<Call("create_secret", username, o.create_secret)>>

\* Lines 224-239: the new key, or None when create_access_key raises.
create_new_access_key(username, o) ==
    IF o.create = "ok"
    THEN [calls |-> <<Call("create_access_key", username, "ok")>>
                    \o store_access_key_in_secrets_manager(username, o),
          key |-> "NEW_KEY"]
    ELSE [calls |-> <<Call("create_access_key", username, "error")>>,
          key |-> None]

\* A key never used taken as just used.
inactivity_age_used_only(key_meta, last_used, t) ==
    IF last_used # NoDate THEN t - last_used ELSE 0

\* Lines 173-178.
inactivity_age(key_meta, last_used, t) ==
    IF last_used # NoDate THEN t - last_used ELSE t - key_meta.CreateDate

\* Line 181.
is_inactive(key_meta, last_used, t) ==
    inactivity_age(key_meta, last_used, t) > inactive_threshold

\* The threshold itself taken as due for rotation.
needs_rotation_at_threshold(key_meta, t) ==
    key_meta.Status = "Active" /\ t - key_meta.CreateDate >= rotate_threshold

\* Line 192.
needs_rotation(key_meta, t) ==
    key_meta.Status = "Active" /\ t - key_meta.CreateDate > rotate_threshold

\* A new key for every rotation.
new_key_for_rotation_always(dry, username, created_new_key, o) ==
    IF ~dry THEN create_new_access_key(username, o)
    ELSE [calls |-> <<>>, key |-> "DRY_RUN_PLACEHOLDER"]

\* Lines 195-200: the new key of this run, created on the first rotation.
new_key_for_rotation(dry, username, created_new_key, o) ==
    IF created_new_key = None
    THEN IF ~dry THEN create_new_access_key(username, o)
         ELSE [calls |-> <<>>, key |-> "DRY_RUN_PLACEHOLDER"]
    ELSE [calls |-> <<>>, key |-> created_new_key]

\* DRY_RUN not consulted before the call.
deactivate_unless_dry_always(dry, username, access_key_id, o) ==
    deactivate_key(username, access_key_id, o)

\* Lines 183-186 and 202-205.
deactivate_unless_dry(dry, username, access_key_id, o) ==
    IF ~dry THEN deactivate_key(username, access_key_id, o) ELSE <<>>

\* The old key kept, and not counted, when no new key could be created.
key_iteration_guarded(dry, username, key_meta, last_used, t, created_new_key, o) ==
    IF is_inactive(key_meta, last_used, t)
    THEN [calls |-> deactivate_unless_dry(dry, username, key_meta.AccessKeyId, o),
          deactivated |-> 1, rotated |-> 0,
          created_new_key |-> created_new_key]
    ELSE IF needs_rotation(key_meta, t)
    THEN LET new == new_key_for_rotation(dry, username, created_new_key, o)
         IN  IF new.key = None
             THEN [calls |-> new.calls, deactivated |-> 0, rotated |-> 0,
                   created_new_key |-> None]
             ELSE [calls |-> new.calls
                             \o deactivate_unless_dry(dry, username,
                                                      key_meta.AccessKeyId, o),
                   deactivated |-> 0, rotated |-> 1,
                   created_new_key |-> new.key]
    ELSE [calls |-> <<>>, deactivated |-> 0, rotated |-> 0,
          created_new_key |-> created_new_key]

\* Lines 161-206: one iteration of the loop over a user's keys.
key_iteration(dry, username, key_meta, last_used, t, created_new_key, o) ==
    IF is_inactive(key_meta, last_used, t)
    THEN [calls |-> deactivate_unless_dry(dry, username, key_meta.AccessKeyId, o),
          deactivated |-> 1, rotated |-> 0,
          created_new_key |-> created_new_key]
    ELSE IF needs_rotation(key_meta, t)
    THEN LET new == new_key_for_rotation(dry, username, created_new_key, o)
         IN  [calls |-> new.calls
                        \o deactivate_unless_dry(dry, username, key_meta.AccessKeyId, o),
              deactivated |-> 0, rotated |-> 1,
              created_new_key |-> new.key]
    ELSE [calls |-> <<>>, deactivated |-> 0, rotated |-> 0,
          created_new_key |-> created_new_key]

\* Line 132.
is_skipped(allowed, username) ==
    allowed # {} /\ username \notin allowed

\* Lines 156-159: the locals of process_user_keys before its loop.
new_frame(username) ==
    [username |-> username, k |-> 0, created_new_key |-> None,
     deactivated_count |-> 0, rotated_count |-> 0]

\* Lines 187, 197-200 and 206: the locals after one iteration.
frame_after(fr, r) ==
    [fr EXCEPT !.k = @ + 1,
               !.created_new_key = r.created_new_key,
               !.deactivated_count = @ + r.deactivated,
               !.rotated_count = @ + r.rotated]

\* Line 137.
count_user(counts) ==
    [counts EXCEPT !.users_processed = @ + 1]

\* Lines 138-140: d, r of one user added to the totals.
add_user_counts(counts, d, r) ==
    [counts EXCEPT !.keys_deactivated = @ + d, !.keys_rotated = @ + r]

\* Lines 294-310: the values the summary text shows.
build_summary(t, dry, ec2, iam) ==
    [time |-> t, dry_run |-> dry,
     candidates |-> ec2.instances_to_stop,
     stopped |-> ec2.instances_stopped,
     users_processed |-> iam.users_processed,
     keys_deactivated |-> iam.keys_deactivated,
     keys_rotated |-> iam.keys_rotated]

\* ------------------------------------------------------------ state
VARIABLES
    DRY_RUN,              \* line 13
    IAM_ALLOWED_USERS,    \* lines 20-21
    pc,                   \* where the invocation is
    now,                  \* line 32
    filters,              \* stop_old_ec2_instances: lines 55-64
    reservations,         \* the instances paginate gave
    instances_to_stop,    \* line 69
    instances_stopped,    \* line 93
    ec2_calls,            \* the stop_instances calls made
    ec2_stats,            \* line 35
    u,                    \* manage_iam_keys: the users paginate has given so far
    iam_counts,           \* lines 124-126
    iam_stats,            \* line 36
    frame,                \* process_user_keys: its locals
    iter,                 \* the last iteration of its loop: what it read and called
    user_hist,            \* per user: create calls, keys created, Active keys,
                          \* update_access_key calls that succeeded
    summary,              \* line 41
    slack_calls,          \* the webhook posts made
    result,               \* what lambda_handler returned
    cmp                   \* a dry-run and a live run walked side by side

config == <<DRY_RUN, IAM_ALLOWED_USERS, now>>
ec2_vars == <<filters, reservations, instances_to_stop, instances_stopped, ec2_calls, ec2_stats>>
iam_vars == <<u, iam_counts, iam_stats, frame, iter, user_hist>>
end_vars == <<summary, slack_calls, result>>
vars == <<config, pc, ec2_vars, iam_vars, end_vars, cmp>>

NoFrame ==
    [username |-> 0, k |-> 0, created_new_key |-> None,
     deactivated_count |-> 0, rotated_count |-> 0]

NoIter ==
    [k |-> 0, key_meta |-> None, last_used |-> NoDate, had_new_key |-> None,
     new_key |-> None,
     calls |-> <<>>, deactivated |-> 0, rotated |-> 0]

NoUserHist ==
    [create_calls |-> 0, keys_created |-> 0, active_before |-> 0, active_after |-> 0,
     deactivate_ok |-> 0, rotate_ok |-> 0]

NoCounts == [users_processed |-> 0, keys_deactivated |-> 0, keys_rotated |-> 0]

NoCmp == [at |-> "off"]

AllowedSets == {{}, {1}}

Init ==
    /\ DRY_RUN \in BOOLEAN
    /\ IAM_ALLOWED_USERS \in AllowedSets
    /\ pc = "lambda_handler"
    /\ now \in Nows
    /\ filters = None
    /\ reservations = <<>>
    /\ instances_to_stop = <<>>
    /\ instances_stopped = 0
    /\ ec2_calls = <<>>
    /\ ec2_stats = None
    /\ u = 0
    /\ iam_counts = NoCounts
    /\ iam_stats = None
    /\ frame = NoFrame
    /\ iter = NoIter
    /\ user_hist = NoUserHist
    /\ summary = None
    /\ slack_calls = <<>>
    /\ result = None
    /\ cmp = NoCmp

\* An exception no handler catches leaves lambda_handler.
Raise(where) ==
    /\ pc' = "raised"
    /\ result' = [raised |-> where]

\* ------------------------------------------------------------ stop_old_ec2_instances
\* Lines 55-82: list the running instances and collect the old ones.
\* EC2_FILTER_TAG_KEY and EC2_FILTER_TAG_VALUE (lines 16-17) are read here
\* and nowhere else: tag says whether both are set.
Ec2Scan ==
    /\ pc = "lambda_handler"
    /\ \E tag \in BOOLEAN :
         /\ filters' = ec2_filters(tag)
         /\ \/ /\ Raise("describe_instances")
               /\ UNCHANGED <<reservations, instances_to_stop>>
            \/ \E inventory \in Ec2Inventories(now) :
                 LET page == describe_instances(ec2_filters(tag), inventory)
                 IN  /\ reservations' = page
                     /\ instances_to_stop' = scan_instances(page, now)
                     /\ pc' = "ec2_stop"
                     /\ UNCHANGED result
    /\ UNCHANGED <<config, instances_stopped, ec2_calls, ec2_stats, iam_vars,
                   summary, slack_calls, cmp>>

\* Lines 84-103: nothing to stop, dry run, or one stop_instances call.
Ec2Stop ==
    /\ pc = "ec2_stop"
    /\ \E outcome \in {"ok", "error"} :
         LET done == stop_candidates(DRY_RUN, instances_to_stop, outcome)
         IN  /\ ec2_calls' = ec2_calls \o done.calls
             /\ instances_stopped' = done.instances_stopped
    /\ pc' = "ec2_return"
    /\ UNCHANGED <<config, filters, reservations, instances_to_stop, ec2_stats,
                   iam_vars, end_vars, cmp>>

\* Lines 86-89 and 105-108.
Ec2Return ==
    /\ pc = "ec2_return"
    /\ ec2_stats' = ec2_result(instances_to_stop, instances_stopped)
    /\ filters' = None
    /\ reservations' = <<>>
    /\ instances_to_stop' = <<>>
    /\ instances_stopped' = 0
    /\ pc' = "user_loop"
    /\ UNCHANGED <<config, ec2_calls, iam_vars, end_vars, cmp>>

\* ------------------------------------------------------------ manage_iam_keys
\* Lines 128-138 and 150: the paginator gives the next user, who is skipped,
\* or counted and its keys listed; or it gives no further user (lines 142-146).
NextUser ==
    /\ pc = "user_loop"
    /\ \/ /\ Raise("list_users")
          /\ UNCHANGED <<u, iam_counts, iam_stats, frame>>
       \/ /\ u < MaxUsers
          /\ LET username == u + 1
             IN  IF is_skipped(IAM_ALLOWED_USERS, username)
                 THEN /\ u' = u + 1
                      /\ UNCHANGED <<pc, iam_counts, frame, result>>
                 ELSE \/ /\ Raise("list_access_keys")
                         /\ iam_counts' = count_user(iam_counts)
                         /\ UNCHANGED <<u, frame>>
                      \/ /\ iam_counts' = count_user(iam_counts)
                         /\ frame' = new_frame(username)
                         /\ pc' = "key_loop"
                         /\ UNCHANGED <<u, result>>
          /\ UNCHANGED iam_stats
       \/ /\ iam_stats' = iam_counts
          /\ u' = 0
          /\ iam_counts' = NoCounts
          /\ pc' = "build_summary"
          /\ UNCHANGED <<frame, result>>
    /\ iter' = NoIter
    /\ user_hist' = NoUserHist
    /\ UNCHANGED <<config, ec2_vars, summary, slack_calls, cmp>>

\* What one iteration leaves in the account, counted from its calls.
hist_after(h, key_meta, r) ==
    LET updated == IF Succeeded(r.calls, "update_access_key") # {} THEN 1 ELSE 0
        created == Cardinality(Succeeded(r.calls, "create_access_key"))
        active == IF key_meta.Status = "Active" THEN 1 ELSE 0
    IN  [create_calls |-> h.create_calls + Cardinality(Issued(r.calls, "create_access_key")),
         keys_created |-> h.keys_created + created,
         active_before |-> h.active_before + active,
         active_after |-> h.active_after + created + active * (1 - updated),
         deactivate_ok |-> h.deactivate_ok + updated * r.deactivated,
         rotate_ok |-> h.rotate_ok + updated * r.rotated]

\* Every outcome one iteration can have.
Iterations(dry, username, key_meta, last_used, t, created_new_key) ==
    { key_iteration(dry, username, key_meta, last_used, t, created_new_key, o) :
        o \in Oracles }

\* Lines 161-206: one iteration of the loop over the user's keys.
ProcessKey ==
    /\ pc = "key_loop"
    /\ frame.k < MaxKeys
    /\ \E key_meta \in KeyMetas(frame.k + 1, now) :
         \/ /\ Raise("get_access_key_last_used")
            /\ UNCHANGED <<frame, iter, user_hist>>
         \/ \E last_used \in LastUsedDates(key_meta, now) :
              \E r \in Iterations(DRY_RUN, frame.username, key_meta, last_used,
                                  now, frame.created_new_key) :
                  /\ frame' = frame_after(frame, r)
                  /\ iter' = [k |-> frame.k + 1, key_meta |-> key_meta,
                              last_used |-> last_used,
                              had_new_key |-> frame.created_new_key,
                              new_key |-> r.created_new_key,
                              calls |-> r.calls,
                              deactivated |-> r.deactivated, rotated |-> r.rotated]
                  /\ user_hist' = hist_after(user_hist, key_meta, r)
                  /\ UNCHANGED <<pc, result>>
    /\ UNCHANGED <<config, ec2_vars, u, iam_counts, iam_stats,
                   summary, slack_calls, cmp>>

\* Lines 152-154, 208 and 138-140: the user has no (further) key;
\* process_user_keys returns and its counts are added.
ReturnUser ==
    /\ pc = "key_loop"
    /\ iam_counts' = add_user_counts(iam_counts, frame.deactivated_count,
                                     frame.rotated_count)
    /\ u' = u + 1
    /\ frame' = NoFrame
    /\ pc' = "user_loop"
    /\ UNCHANGED <<config, ec2_vars, iam_stats, iter, user_hist, end_vars, cmp>>

\* ------------------------------------------------------------ summary and Slack
\* Lines 38-42.
BuildSummary ==
    /\ pc = "build_summary"
    /\ summary' = build_summary(now, DRY_RUN, ec2_stats, iam_stats)
    /\ pc' = "send_slack"
    /\ UNCHANGED <<config, ec2_vars, iam_vars, slack_calls, result, cmp>>

\* Lines 313-337: no URL, no post; else one post, its failure swallowed.
send_slack_notification(url, text, outcome) ==
    IF ~url THEN <<>> ELSE <<Call("urlopen", text, outcome)>>

\* Lines 43-45.  SLACK_WEBHOOK_URL (line 28) is read here and nowhere else:
\* url says whether it is set.
SendSlack ==
    /\ pc = "send_slack"
    /\ \E url \in BOOLEAN, outcome \in {"ok", "http_error", "error"} :
         slack_calls' = slack_calls \o send_slack_notification(url, summary, outcome)
    /\ result' = [status |-> "ok"]
    /\ pc' = "done"
    /\ UNCHANGED <<config, ec2_vars, iam_vars, summary, cmp>>

Next ==
    \/ Ec2Scan
    \/ Ec2Stop
    \/ Ec2Return
    \/ NextUser
    \/ ProcessKey
    \/ ReturnUser
    \/ BuildSummary
    \/ SendSlack

Spec == Init /\ [][Next]_vars

\* ------------------------------------------------------------ the functions alone
\* stop_old_ec2_instances(now) alone.
NextEc2 ==
    \/ Ec2Scan
    \/ Ec2Stop
    \/ Ec2Return

SpecEc2 == Init /\ [][NextEc2]_vars

\* manage_iam_keys(now) alone, entered after an EC2 step that found nothing.
InitIam ==
    /\ DRY_RUN \in BOOLEAN
    /\ IAM_ALLOWED_USERS \in AllowedSets
    /\ pc = "user_loop"
    /\ now \in Nows
    /\ filters = None
    /\ reservations = <<>>
    /\ instances_to_stop = <<>>
    /\ instances_stopped = 0
    /\ ec2_calls = <<>>
    /\ ec2_stats = ec2_result(<<>>, 0)
    /\ u = 0
    /\ iam_counts = NoCounts
    /\ iam_stats = None
    /\ frame = NoFrame
    /\ iter = NoIter
    /\ user_hist = NoUserHist
    /\ summary = None
    /\ slack_calls = <<>>
    /\ result = None
    /\ cmp = NoCmp

NextIam ==
    \/ NextUser
    \/ ProcessKey
    \/ ReturnUser

SpecIam == InitIam /\ [][NextIam]_vars

\* ------------------------------------------------------------ two runs side by side
\* A run with DRY_RUN on and a run with DRY_RUN off in which every call
\* succeeds, given the same now and the same responses, step by step.
Twin == [ec2_stats |-> None, iam_counts |-> NoCounts, iam_stats |-> None,
         frame |-> NoFrame]

InitCmp ==
    /\ DRY_RUN = TRUE
    /\ IAM_ALLOWED_USERS \in AllowedSets
    /\ pc = "cmp"
    /\ now \in Nows
    /\ filters = None
    /\ reservations = <<>>
    /\ instances_to_stop = <<>>
    /\ instances_stopped = 0
    /\ ec2_calls = <<>>
    /\ ec2_stats = None
    /\ u = 0
    /\ iam_counts = NoCounts
    /\ iam_stats = None
    /\ frame = NoFrame
    /\ iter = NoIter
    /\ user_hist = NoUserHist
    /\ summary = None
    /\ slack_calls = <<>>
    /\ result = None
    /\ cmp = [at |-> "lambda_handler", u |-> 0, dry |-> Twin, live |-> Twin]

main_vars == <<config, pc, ec2_vars, iam_vars, end_vars>>

CmpEc2 ==
    /\ cmp.at = "lambda_handler"
    /\ \E tag \in BOOLEAN, inventory \in Ec2Inventories(now) :
         cmp' = [cmp EXCEPT
                   !.at = "user_loop",
                   !.dry.ec2_stats = stop_old_ec2_instances(TRUE, tag, inventory, now, "ok"),
                   !.live.ec2_stats = stop_old_ec2_instances(FALSE, tag, inventory, now, "ok")]
    /\ UNCHANGED main_vars

CmpNextUser ==
    /\ cmp.at = "user_loop"
    /\ \/ /\ cmp.u < MaxUsers
          /\ IF is_skipped(IAM_ALLOWED_USERS, cmp.u + 1)
             THEN cmp' = [cmp EXCEPT !.u = @ + 1]
             ELSE cmp' = [cmp EXCEPT
                            !.at = "key_loop",
                            !.dry.iam_counts = count_user(@),
                            !.live.iam_counts = count_user(@),
                            !.dry.frame = new_frame(cmp.u + 1),
                            !.live.frame = new_frame(cmp.u + 1)]
       \/ cmp' = [cmp EXCEPT
                    !.at = "done",
                    !.dry.iam_stats = cmp.dry.iam_counts,
                    !.live.iam_stats = cmp.live.iam_counts]
    /\ UNCHANGED main_vars

CmpKey ==
    /\ cmp.at = "key_loop"
    /\ cmp.dry.frame.k < MaxKeys
    /\ \E key_meta \in KeyMetas(cmp.dry.frame.k + 1, now) :
         \E last_used \in LastUsedDates(key_meta, now) :
            LET d == key_iteration(TRUE, cmp.u + 1, key_meta, last_used, now,
                                   cmp.dry.frame.created_new_key, AllOk)
                l == key_iteration(FALSE, cmp.u + 1, key_meta, last_used, now,
                                   cmp.live.frame.created_new_key, AllOk)
            IN  cmp' = [cmp EXCEPT !.dry.frame = frame_after(@, d),
                                   !.live.frame = frame_after(@, l)]
    /\ UNCHANGED main_vars

CmpReturnUser ==
    /\ cmp.at = "key_loop"
    /\ cmp' = [cmp EXCEPT
                 !.at = "user_loop",
                 !.u = @ + 1,
                 !.dry.iam_counts = add_user_counts(@, cmp.dry.frame.deactivated_count,
                                                    cmp.dry.frame.rotated_count),
                 !.live.iam_counts = add_user_counts(@, cmp.live.frame.deactivated_count,
                                                     cmp.live.frame.rotated_count),
                 !.dry.frame = NoFrame,
                 !.live.frame = NoFrame]
    /\ UNCHANGED main_vars

NextCmp ==
    \/ CmpEc2
    \/ CmpNextUser
    \/ CmpKey
    \/ CmpReturnUser

SpecCmp == InitCmp /\ [][NextCmp]_vars

\* ------------------------------------------------------------ properties
\* What the last iteration read, as the claims state it.
C_InactivityAge ==
    IF iter.last_used = NoDate THEN now - iter.key_meta.CreateDate
    ELSE now - iter.last_used

C_KeyAge == now - iter.key_meta.CreateDate

C_Updates == Issued(iter.calls, "update_access_key")
C_Creates == Issued(iter.calls, "create_access_key")

\* One update_access_key call, on the key of the iteration, unless DRY_RUN.
C_OldKeyDeactivation ==
    /\ \A i \in C_Updates : iter.calls[i].arg = iter.key_meta.AccessKeyId
    /\ Cardinality(C_Updates) = IF DRY_RUN THEN 0 ELSE 1

C_NoAction ==
    /\ iter.calls = <<>>
    /\ iter.deactivated = 0
    /\ iter.rotated = 0
    /\ iter.new_key = iter.had_new_key

ReadApis ==
    {"describe_instances", "list_users", "list_access_keys", "get_access_key_last_used"}

\* C1: in one run at most one new access key is created for a user, however
\* many of its keys are rotated and whatever calls fail.
C1_AtMostOneNewKey ==
    user_hist.keys_created <= 1

C1_Witness ==
    /\ pc = "key_loop"
    /\ frame.rotated_count >= 2
    /\ user_hist.create_calls >= 2
    /\ user_hist.keys_created = 1

\* C2: a key whose inactivity age is over 60 days is deactivated whatever its
\* status and age, is counted as deactivated only, and creates no new key.
C2_InactiveDeactivated ==
    (iter.k > 0 /\ C_InactivityAge > days(60)) =>
        /\ iter.deactivated = 1
        /\ iter.rotated = 0
        /\ C_Creates = {}
        /\ iter.new_key = iter.had_new_key
        /\ C_OldKeyDeactivation
        /\ Len(iter.calls) = Cardinality(C_Updates)

C2_Witness ==
    /\ iter.k > 0
    /\ C_InactivityAge > days(60)
    /\ iter.key_meta.Status = "Active"
    /\ iter.last_used = NoDate
    /\ ~DRY_RUN
    /\ C_Updates # {}

\* C3: a key whose inactivity age is at most 60 days is rotated when it is
\* Active and older than 30 days, and is otherwise left alone: no call, no count.
C3_RotateOrNoAction ==
    (iter.k > 0 /\ C_InactivityAge <= days(60)) =>
        IF iter.key_meta.Status = "Active" /\ C_KeyAge > days(30)
        THEN /\ iter.rotated = 1
             /\ iter.deactivated = 0
             /\ C_OldKeyDeactivation
        ELSE C_NoAction

C3_Witness ==
    /\ iter.k > 0
    /\ C_InactivityAge = days(60)
    /\ iter.rotated = 1
    /\ ~DRY_RUN

\* C4: with DRY_RUN on no mutating call is made at any point of a run and the
\* account is left as it was.
C4_DryRunNoMutation ==
    DRY_RUN =>
        /\ ec2_calls = <<>>
        /\ iter.calls = <<>>
        /\ user_hist.create_calls = 0
        /\ user_hist.keys_created = 0
        /\ user_hist.deactivate_ok = 0
        /\ user_hist.rotate_ok = 0
        /\ user_hist.active_after = user_hist.active_before
        /\ frame.created_new_key \in {None, "DRY_RUN_PLACEHOLDER"}

C4_Witness ==
    /\ DRY_RUN
    /\ pc = "done"
    /\ summary.candidates >= 1
    /\ summary.keys_deactivated >= 1
    /\ summary.keys_rotated >= 1

\* C5 as stated: every counter of a dry run equals the counter of a live run
\* in which every call succeeds, on the same account at the same time.
C5_AllCountersEqual ==
    cmp.at = "done" =>
        /\ cmp.dry.ec2_stats = cmp.live.ec2_stats
        /\ cmp.dry.iam_stats = cmp.live.iam_stats

\* C5 as amended: every counter but instances_stopped equals the live run's,
\* and the dry run's instances_stopped is 0.
C5_DryCountersMatch ==
    /\ cmp.at = "key_loop" =>
        /\ cmp.dry.frame.deactivated_count = cmp.live.frame.deactivated_count
        /\ cmp.dry.frame.rotated_count = cmp.live.frame.rotated_count
    /\ cmp.at = "done" =>
        /\ cmp.dry.ec2_stats.instances_to_stop = cmp.live.ec2_stats.instances_to_stop
        /\ cmp.dry.ec2_stats.instances_stopped = 0
        /\ cmp.dry.iam_stats = cmp.live.iam_stats

C5_Witness ==
    /\ cmp.at = "done"
    /\ cmp.live.ec2_stats.instances_stopped >= 1
    /\ cmp.live.iam_stats.users_processed >= 2
    /\ cmp.live.iam_stats.keys_deactivated >= 1
    /\ cmp.live.iam_stats.keys_rotated >= 2

\* C6 as stated: every invocation ends by returning {status: "ok"}, whatever
\* call failed on the way.
C6_AlwaysReturnsOk ==
    pc \in {"done", "raised"} =>
        /\ pc = "done"
        /\ result = [status |-> "ok"]

\* C7 as stated: outside a dry run a failed call shows as a reduced counter:
\* a failed stop leaves instances_stopped at 0, a key whose deactivation
\* failed is counted neither as deactivated nor as rotated, and the counts of
\* a user are no more than its update_access_key calls that succeeded.
C7_FailedNotCounted ==
    ~DRY_RUN =>
        /\ (pc = "ec2_return" /\ Succeeded(ec2_calls, "stop_instances") = {}) =>
               instances_stopped = 0
        /\ (iter.k > 0 /\ C_Updates # {} /\ Succeeded(iter.calls, "update_access_key") = {}) =>
               (iter.deactivated = 0 /\ iter.rotated = 0)
        /\ frame.deactivated_count <= user_hist.deactivate_ok
        /\ frame.rotated_count <= user_hist.rotate_ok

\* C8 as stated: stop_instances is called at most once in a run,
\* update_access_key at most once for a key, create_access_key at most once
\* for a user, and no failure of such a call ends the run.
C8_NoRetries ==
    /\ Len(ec2_calls) <= 1
    /\ Cardinality(C_Updates) <= 1
    /\ user_hist.create_calls <= 1
    /\ pc = "raised" => result.raised \in ReadApis

\* C8 as amended: create_access_key is called at most once for each key that
\* is rotated, and never after a call for the user succeeded.
C8_OncePerItem ==
    /\ Len(ec2_calls) <= 1
    /\ Cardinality(C_Updates) <= 1
    /\ Cardinality(C_Creates) <= 1
    /\ iter.had_new_key # None => C_Creates = {}
    /\ pc = "key_loop" => user_hist.create_calls <= frame.rotated_count
    /\ pc = "raised" => result.raised \in ReadApis

C8_Witness ==
    /\ pc = "key_loop"
    /\ u >= 1
    /\ iter.k >= 2
    /\ user_hist.create_calls >= 2
    /\ C_Updates # {}
    /\ Succeeded(iter.calls, "update_access_key") = {}

\* C9: outside a dry run, when a key is to be rotated and create_access_key
\* fails, the old key is deactivated all the same and counted as rotated.
C9_DeactivatedWithoutNewKey ==
    (~DRY_RUN /\ iter.k > 0 /\ C_Creates # {}
        /\ Succeeded(iter.calls, "create_access_key") = {}) =>
        /\ iter.rotated = 1
        /\ C_OldKeyDeactivation
        /\ iter.new_key = None

\* A user that had an Active key is left with none.
C9_Witness ==
    /\ ~DRY_RUN
    /\ pc = "user_loop"
    /\ user_hist.active_before >= 1
    /\ user_hist.active_after = 0
    /\ user_hist.create_calls >= 1
    /\ user_hist.keys_created = 0

\* C10: the candidates are the scanned running instances launched more than
\* 24 hours ago; one stop_instances call names them all when there are any and
\* DRY_RUN is off, no call is made otherwise; and instances_stopped is the
\* number of candidates or 0.
C_Old ==
    { i \in 1..Len(reservations) : now - reservations[i].LaunchTime > hours(24) }

C10_ReaperBatch ==
    /\ pc \in {"ec2_stop", "ec2_return"} =>
        /\ \A i \in 1..Len(reservations) :
             /\ reservations[i].State = "running"
             /\ filters.tag => reservations[i].Tagged
        /\ { instances_to_stop[j] : j \in 1..Len(instances_to_stop) }
             = { reservations[i].InstanceId : i \in C_Old }
        /\ Len(instances_to_stop) = Cardinality(C_Old)
    /\ pc = "ec2_return" =>
        /\ IF instances_to_stop # <<>> /\ ~DRY_RUN
           THEN /\ Len(ec2_calls) = 1
                /\ ec2_calls[1].api = "stop_instances"
                /\ ec2_calls[1].arg = instances_to_stop
                /\ instances_stopped =
                     IF ec2_calls[1].outcome = "ok" THEN Len(instances_to_stop) ELSE 0
           ELSE /\ ec2_calls = <<>>
                /\ instances_stopped = 0
    /\ pc \in {"user_loop", "key_loop", "build_summary", "send_slack", "done"} =>
        ec2_stats.instances_stopped \in {0, ec2_stats.instances_to_stop}

C10_Witness ==
    /\ pc = "ec2_return"
    /\ Len(reservations) = 2
    /\ Len(instances_to_stop) = 2
    /\ Len(ec2_calls) = 1
    /\ instances_stopped = 2

====
